---- MODULE Spec2Model ----
(***************************************************************************)
(* Model of the mesos command-line client                                  *)
(* (src/python/twitter/mesos/bin/mesos_client.py).                         *)
(*                                                                         *)
(* One behaviour is one process: main() dispatches one subcommand, the     *)
(* handler runs statement by statement, and the process ends with an exit  *)
(* status.  A Python string is a sequence of one-character strings, so     *)
(* that find / split / int are computed on the characters.                 *)
(***************************************************************************)
EXTENDS Integers, Sequences, FiniteSets, TLC

(***************************************************************************)
(* Bounds of the model.                                                    *)
(***************************************************************************)
NumShards == 2       \* shards of the job handed to the updater: 0..NumShards-1
NumTokens == 2       \* update tokens the scheduler may hand out: 1..NumTokens
MaxArgs   == 4       \* positional words after the subcommand: 0..MaxArgs
MaxTasks  == 3       \* tasks in the response to a status query: 0..MaxTasks

(***************************************************************************)
(* Python values.                                                          *)
(***************************************************************************)
\* None where a string is expected: a sequence no character string equals.
None == <<"<None>">>
\* None where a host name is expected.
NoHost == "None"
\* None where an update token or a session key is expected.
NoToken == 0
NoKey == 0
\* A local name that was never assigned, and one bound to the value v.
Unbound == [bound |-> FALSE, val |-> << >>]
Bound(v) == [bound |-> TRUE, val |-> v]
\* Exit status of a process that has not exited yet.
Running == -1

\* bool(s) of a str-or-None value.
Truthy(s) == s # None /\ s # <<>>

Localhost == <<"l","o","c","a","l","h","o","s","t">>
LocalhostColon == Localhost \o <<":">>
AngrybirdLocal == <<"a","n","g","r","y","b","i","r","d","-","l","o","c","a","l">>
Smf1 == <<"s","m","f","1">>
Xyz == <<"x","y","z">>

Digits == {"0","1","2","3","4","5","6","7","8","9"}

DigitVal(c) ==
  CASE c = "0" -> 0 [] c = "1" -> 1 [] c = "2" -> 2 [] c = "3" -> 3
    [] c = "4" -> 4 [] c = "5" -> 5 [] c = "6" -> 6 [] c = "7" -> 7
    [] c = "8" -> 8 [] c = "9" -> 9

\* s.find(sub) > -1 for a one-character sub.
Contains(s, c) == \E i \in 1..Len(s) : s[i] = c

\* s.find(prefix) == 0
StartsWith(s, prefix) ==
  /\ Len(s) >= Len(prefix)
  /\ SubSeq(s, 1, Len(prefix)) = prefix

\* s.split(c): the sequence of the maximal c-free pieces of s.
RECURSIVE SplitAcc(_, _, _, _)
SplitAcc(s, c, cur, acc) ==
  IF s = <<>> THEN Append(acc, cur)
  ELSE IF Head(s) = c THEN SplitAcc(Tail(s), c, <<>>, Append(acc, cur))
  ELSE SplitAcc(Tail(s), c, Append(cur, Head(s)), acc)

Split(s, c) == SplitAcc(s, c, <<>>, <<>>)

\* Value of a non-empty sequence of decimal digits.
RECURSIVE DigitsValue(_, _)
DigitsValue(s, acc) ==
  IF s = <<>> THEN acc ELSE DigitsValue(Tail(s), 10 * acc + DigitVal(Head(s)))

AllDigits(s) == s # <<>> /\ \A i \in 1..Len(s) : s[i] \in Digits

\* int(s): [ok |-> TRUE, val |-> n], or ok = FALSE where Python raises
\* ValueError.  (The strings of the model hold no white space.)
ParseInt(s) ==
  IF s # <<>> /\ Head(s) \in {"-", "+"} THEN
    IF AllDigits(Tail(s))
      THEN [ok |-> TRUE,
            val |-> IF Head(s) = "-" THEN 0 - DigitsValue(Tail(s), 0)
                    ELSE DigitsValue(Tail(s), 0)]
      ELSE [ok |-> FALSE, val |-> 0]
  ELSE IF AllDigits(s) THEN [ok |-> TRUE, val |-> DigitsValue(s, 0)]
  ELSE [ok |-> FALSE, val |-> 0]

\* float(s) succeeds on everything int(s) accepts and on decimals "d.d".
ParseFloatOk(s) ==
  \/ ParseInt(s).ok
  \/ /\ Contains(s, ".")
     /\ Len(Split(s, ".")) = 2
     /\ LET p == Split(s, ".") IN
          /\ p[1] = <<>> \/ ParseInt(p[1]).ok
          /\ p[2] = <<>> \/ AllDigits(p[2])
          /\ ~(p[1] \in {<<>>, <<"-">>, <<"+">>} /\ p[2] = <<>>)

(***************************************************************************)
(* External collaborators of the connection router.                        *)
(***************************************************************************)
\* The cluster registry behind clusters.assert_exists.
Registry == {Smf1, AngrybirdLocal}

\* clusters.assert_exists(name): raises AssertionError for an unknown name.
assert_exists(name) == name \in Registry

\* Location.is_prod() / Location.is_corp(): the locality probe.
Localities == {"prod", "corp"}
is_prod(locality) == locality = "prod"
is_corp(locality) == locality = "corp"

\* What TunnelHelper.get_tunnel_host may return: a host, or none.
TunnelResults == {"nest1.corp", NoHost}

DefaultZkPort == 2181

assert_valid_cluster_port_unchecked_name(cluster) ==
  IF ~Truthy(cluster) THEN "assert"
  ELSE IF Contains(cluster, ":") THEN
    LET scluster == Split(cluster, ":") IN
      IF Len(scluster) = 2 /\ ~ParseInt(scluster[2]).ok THEN "die"
      ELSE "ok"
  ELSE IF ~assert_exists(cluster) THEN "assert"
  ELSE "ok"

(***************************************************************************)
(* MesosCLIHelper.assert_valid_cluster: "ok", "assert" (AssertionError,    *)
(* turned into _die by main) or "die" (_die called directly).              *)
(***************************************************************************)
assert_valid_cluster(cluster) ==
  IF ~Truthy(cluster) THEN "assert"
  ELSE IF Contains(cluster, ":") THEN
    LET scluster == Split(cluster, ":") IN
      IF scluster[1] # Localhost /\ ~assert_exists(scluster[1]) THEN "assert"
      ELSE IF Len(scluster) = 2 /\ ~ParseInt(scluster[2]).ok THEN "die"
      ELSE "ok"
  ELSE IF ~assert_exists(cluster) THEN "assert"
  ELSE "ok"

get_cluster_prefers_config(cmd_line_arg_cluster, config_cluster) ==
  LET cluster == IF Truthy(config_cluster) THEN config_cluster
                 ELSE cmd_line_arg_cluster
  IN [warn    |-> /\ Truthy(config_cluster)
                  /\ Truthy(cmd_line_arg_cluster)
                  /\ config_cluster # cmd_line_arg_cluster,
      cluster |-> cluster,
      outcome |-> assert_valid_cluster(cluster)]

(***************************************************************************)
(* MesosCLIHelper.get_cluster: the selected cluster, whether the mismatch  *)
(* warning is logged, and the outcome of the validity check.               *)
(***************************************************************************)
get_cluster(cmd_line_arg_cluster, config_cluster) ==
  LET cluster == IF Truthy(cmd_line_arg_cluster) THEN cmd_line_arg_cluster
                 ELSE config_cluster
  IN [warn    |-> /\ Truthy(config_cluster)
                  /\ Truthy(cmd_line_arg_cluster)
                  /\ config_cluster # cmd_line_arg_cluster,
      cluster |-> cluster,
      outcome |-> assert_valid_cluster(cluster)]

(***************************************************************************)
(* Scheduler client objects.                                               *)
(***************************************************************************)
NoScheduler == [kind |-> "None", cluster |-> <<>>, port |-> 0, force_notunnel |-> FALSE]

LocalSchedulerClient(port) ==
  [kind |-> "local", cluster |-> <<>>, port |-> port, force_notunnel |-> FALSE]

ZookeeperSchedulerClient_inverted_flag(cluster, zk_port, force_notunnel) ==
  [kind |-> "zookeeper", cluster |-> cluster, port |-> zk_port,
   force_notunnel |-> ~force_notunnel]

ZookeeperSchedulerClient(cluster, zk_port, force_notunnel) ==
  [kind |-> "zookeeper", cluster |-> cluster, port |-> zk_port,
   force_notunnel |-> force_notunnel]

get_scheduler_client_tunnel_first(cluster, locality, host) ==
  LET crash == [outcome |-> "crash", proxy |-> NoHost, scheduler |-> NoScheduler,
                lookups |-> 0, discovery |-> 0]
      parts   == Split(cluster, ":")
      hasPort == Contains(cluster, ":")
      name    == IF hasPort THEN parts[1] ELSE cluster
      asked   == name # AngrybirdLocal /\ is_corp(locality)
      ssh_proxy_host == IF asked THEN host ELSE NoHost
      force_notunnel == (ssh_proxy_host = NoHost)
  IN
  IF StartsWith(cluster, LocalhostColon) THEN
    LET port == ParseInt(parts[2]) IN
      IF ~port.ok THEN crash
      ELSE [outcome |-> "ok", proxy |-> ssh_proxy_host,
            scheduler |-> LocalSchedulerClient(port.val),
            lookups |-> IF asked THEN 1 ELSE 0, discovery |-> 0]
  ELSE
    LET zk == IF hasPort /\ Len(parts) = 2 THEN ParseInt(parts[2])
              ELSE [ok |-> ~hasPort, val |-> DefaultZkPort]
    IN
      IF ~zk.ok THEN crash
      ELSE [outcome |-> "ok", proxy |-> ssh_proxy_host,
            scheduler |-> ZookeeperSchedulerClient(name, zk.val, force_notunnel),
            lookups |-> IF asked THEN 1 ELSE 0, discovery |-> 1]

(***************************************************************************)
(* MesosCLI.get_scheduler_client.  host is what the tunnel lookup answers  *)
(* if it is asked.  outcome is "ok" or "crash" (an uncaught ValueError of  *)
(* int() or of the two-name unpacking); lookups and discovery count the    *)
(* calls of TunnelHelper.get_tunnel_host and the discovery-mode clients    *)
(* built.                                                                  *)
(***************************************************************************)
get_scheduler_client(cluster, locality, host) ==
  LET crash == [outcome |-> "crash", proxy |-> NoHost, scheduler |-> NoScheduler,
                lookups |-> 0, discovery |-> 0]
  IN
  IF StartsWith(cluster, LocalhostColon) THEN
    LET port == ParseInt(Split(cluster, ":")[2]) IN
      IF ~port.ok THEN crash
      ELSE [outcome |-> "ok", proxy |-> NoHost,
            scheduler |-> LocalSchedulerClient(port.val),
            lookups |-> 0, discovery |-> 0]
  ELSE
    LET parts   == Split(cluster, ":")
        hasPort == Contains(cluster, ":")
        zk      == IF hasPort /\ Len(parts) = 2 THEN ParseInt(parts[2])
                   ELSE [ok |-> ~hasPort, val |-> DefaultZkPort]
        name    == IF hasPort THEN parts[1] ELSE cluster
        asked   == name # AngrybirdLocal /\ is_corp(locality)
        ssh_proxy_host == IF asked THEN host ELSE NoHost
        force_notunnel == (ssh_proxy_host = NoHost)
    IN
      IF ~zk.ok THEN crash
      ELSE [outcome |-> "ok", proxy |-> ssh_proxy_host,
            scheduler |-> ZookeeperSchedulerClient(name, zk.val, force_notunnel),
            lookups |-> IF asked THEN 1 ELSE 0, discovery |-> 1]

(***************************************************************************)
(* Inputs of a run.                                                        *)
(***************************************************************************)
Str_1234 == <<"1","2","3","4">>
Str_80 == <<"8","0">>
Str_abc == <<"a","b","c">>

\* Values of --cluster (None when the flag is absent).
ClusterArgs ==
  { None, <<>>, Smf1, AngrybirdLocal, Xyz, Localhost,
    Smf1 \o <<":">> \o Str_80,
    Smf1 \o <<":">> \o Str_abc,
    Smf1 \o <<":">> \o Str_80 \o <<":">> \o Str_80,
    Xyz \o <<":">> \o Str_80,
    LocalhostColon \o Str_1234,
    LocalhostColon \o Str_80,
    LocalhostColon \o Str_abc,
    LocalhostColon,
    LocalhostColon \o Str_80 \o <<":">> \o Str_abc,
    LocalhostColon \o Str_abc \o <<":">> \o Str_80 }

\* Values of config.cluster() of a loaded job configuration.
ConfigClusters == { None, Smf1, Xyz, LocalhostColon \o Str_80 }

Commands ==
  { "create", "inspect", "start_cron", "kill", "status", "update",
    "cancel_update", "get_quota", "set_quota" }

\* len(self.expected_args) of the requires_arguments decorator of do_<c>.
expected_args(c) ==
  CASE c = "get_quota" -> 1
    [] c = "set_quota" -> 4
    [] OTHER -> 2

\* ResponseCode of the scheduler's responses.
OK == "OK"
ResponseCodes == { OK, "INVALID_REQUEST", "ERROR" }

\* UpdateResult
UpdateResults == { "SUCCESS", "FAILED", "TERMINATE" }

Shards == 0 .. (NumShards - 1)
Tokens == 1 .. NumTokens

(***************************************************************************)
(* State.                                                                  *)
(***************************************************************************)
VARIABLES
  cmd,            \* the subcommand on the command line, "" when args is empty
  options,        \* [cluster, copy_app_from]: the parsed global flags
  locality,       \* what the locality probe reports in this process
  pc,             \* the statement the process is at
  exit_code,      \* Running, or the exit status of the process
  _config,        \* MesosCLI._config
  _cluster,       \* MesosCLI._cluster
  _proxy,         \* MesosCLI._proxy
  _scheduler,     \* MesosCLI._scheduler
  _client,        \* MesosCLI._client
  origin,         \* for each cached field, the number of the resolution that
                  \* assigned it last (0: never assigned)
  sessionkey,     \* the handler's local sessionkey (the key last signed)
  resp,           \* the handler's local resp
  failed_shards,  \* the handler's local failed_shards
  line,           \* do_set_quota's words (cpu, ramMb, diskMb), else << >>
  cpu,            \* do_set_quota's locals cpu, ram_mb, disk_mb
  ram_mb,
  disk_mb,
  trace           \* history: every external call, check, read and log line

vars == << cmd, options, locality, pc, exit_code, _config, _cluster, _proxy,
           _scheduler, _client, origin, sessionkey, resp, failed_shards, line, cpu,
           ram_mb, disk_mb, trace >>

env == << cmd, options, locality >>
session == << _cluster, _proxy, _scheduler, _client, origin >>
quota_locals == << line, cpu, ram_mb, disk_mb >>
locals == << sessionkey, resp, failed_shards, quota_locals >>

NoOrigin == [cluster |-> 0, proxy |-> 0, scheduler |-> 0, client |-> 0]
NoConfig == [loaded |-> FALSE, cluster |-> None]
NoResp == [code |-> "None", updateToken |-> NoToken, quota |-> FALSE,
           tasks |-> << >>, checked |-> FALSE]

\* One entry of the history.
Ev(op, key, token, arg) == [op |-> op, key |-> key, token |-> token, arg |-> arg]
Log(msg) == Ev("log", NoKey, NoToken, msg)

Count(op) == Cardinality({i \in 1..Len(trace) : trace[i].op = op})
Indices(op) == {i \in 1..Len(trace) : trace[i].op = op}

Init ==
  /\ cmd \in Commands \cup {""}
  /\ options \in [cluster : ClusterArgs, copy_app_from : BOOLEAN]
  /\ locality \in Localities
  /\ pc = "main"
  /\ exit_code = Running
  /\ _config = NoConfig
  /\ _cluster = None
  /\ _proxy = NoHost
  /\ _scheduler = NoScheduler
  /\ _client = NoScheduler
  /\ origin = NoOrigin
  /\ sessionkey = NoKey
  /\ resp = NoResp
  /\ failed_shards = {}
  /\ line = << >>
  /\ cpu = Unbound
  /\ ram_mb = Unbound
  /\ disk_mb = Unbound
  /\ trace = <<>>

(***************************************************************************)
(* Ways a statement ends.                                                  *)
(***************************************************************************)
\* sys.exit(1), directly or through _die, or an uncaught exception.
Exit1 == pc' = "done" /\ exit_code' = 1

Goto(next) == pc' = next /\ UNCHANGED exit_code

(***************************************************************************)
(* MesosCLI._construct_scheduler, followed by the statement next.          *)
(* The fields are assigned in the order of the code, so a failure leaves   *)
(* the earlier assignments in place.  The history entry of a resolution    *)
(* carries the cluster that get_cluster selected.                          *)
(***************************************************************************)
\* scheduler.get_thrift_client(): a handle on the scheduler's endpoint, or None.
get_thrift_client(scheduler, found) == IF found THEN scheduler ELSE NoScheduler

_construct_scheduler_keeps_client(next) ==
  \E host \in TunnelResults, found \in BOOLEAN :
    LET gc  == get_cluster(options.cluster,
                           IF _config.loaded THEN _config.cluster ELSE None)
        gsc == get_scheduler_client(gc.cluster, locality, host)
        n   == Count("resolve") + 1
        t0  == Append(trace, Ev("resolve", NoKey, NoToken, gc.cluster))
        t1  == IF gc.warn THEN Append(t0, Log("cluster mismatch")) ELSE t0
        t2  == IF gsc.lookups = 1
                 THEN Append(t1, Ev("get_tunnel_host", NoKey, NoToken, host)) ELSE t1
        t3  == IF gsc.discovery = 1
                 THEN Append(t2, Ev("discovery", NoKey, NoToken, "-")) ELSE t2
        kept == _client # NoScheduler
    IN
    IF gc.outcome # "ok" THEN
      /\ UNCHANGED session
      /\ trace' = Append(t1, Log("fatal"))
      /\ Exit1
    ELSE IF gsc.outcome # "ok" THEN
      /\ _cluster' = gc.cluster
      /\ UNCHANGED << _proxy, _scheduler, _client >>
      /\ origin' = [origin EXCEPT !.cluster = n]
      /\ trace' = Append(t1, Log("traceback"))
      /\ Exit1
    ELSE
      /\ _cluster' = gc.cluster
      /\ _proxy' = gsc.proxy
      /\ _scheduler' = gsc.scheduler
      /\ _client' = IF kept THEN _client ELSE get_thrift_client(gsc.scheduler, found)
      /\ origin' = [cluster |-> n, proxy |-> n, scheduler |-> n,
                    client |-> IF kept THEN origin.client ELSE n]
      /\ IF found \/ kept THEN trace' = t3 /\ Goto(next)
         ELSE trace' = Append(t3, Log("fatal")) /\ Exit1

_construct_scheduler(next) ==
  \E host \in TunnelResults, found \in BOOLEAN :
    LET gc  == get_cluster(options.cluster,
                           IF _config.loaded THEN _config.cluster ELSE None)
        gsc == get_scheduler_client(gc.cluster, locality, host)
        n   == Count("resolve") + 1
        t0  == Append(trace, Ev("resolve", NoKey, NoToken, gc.cluster))
        t1  == IF gc.warn THEN Append(t0, Log("cluster mismatch")) ELSE t0
        t2  == IF gsc.lookups = 1
                 THEN Append(t1, Ev("get_tunnel_host", NoKey, NoToken, host)) ELSE t1
        t3  == IF gsc.discovery = 1
                 THEN Append(t2, Ev("discovery", NoKey, NoToken, "-")) ELSE t2
    IN
    IF gc.outcome # "ok" THEN
      /\ UNCHANGED session
      /\ trace' = Append(t1, Log("fatal"))
      /\ Exit1
    ELSE IF gsc.outcome # "ok" THEN
      /\ _cluster' = gc.cluster
      /\ UNCHANGED << _proxy, _scheduler, _client >>
      /\ origin' = [origin EXCEPT !.cluster = n]
      /\ trace' = Append(t1, Log("traceback"))
      /\ Exit1
    ELSE
      /\ _cluster' = gc.cluster
      /\ _proxy' = gsc.proxy
      /\ _scheduler' = gsc.scheduler
      /\ _client' = get_thrift_client(gsc.scheduler, found)
      /\ origin' = [cluster |-> n, proxy |-> n, scheduler |-> n, client |-> n]
      /\ IF found THEN trace' = t3 /\ Goto(next)
         ELSE trace' = Append(t3, Log("fatal")) /\ Exit1

(***************************************************************************)
(* The accessors MesosCLI.client / proxy / cluster, followed by next.      *)
(***************************************************************************)
client(next) ==
  /\ IF _client = NoScheduler THEN _construct_scheduler(next)
     ELSE Goto(next) /\ UNCHANGED << session, trace >>
  /\ UNCHANGED << env, _config, locals >>

proxy(next) ==
  /\ IF _proxy = NoHost THEN _construct_scheduler(next)
     ELSE Goto(next) /\ UNCHANGED << session, trace >>
  /\ UNCHANGED << env, _config, locals >>

cluster(next) ==
  /\ IF ~Truthy(_cluster) THEN _construct_scheduler(next)
     ELSE Goto(next) /\ UNCHANGED << session, trace >>
  /\ UNCHANGED << env, _config, locals >>

(***************************************************************************)
(* MesosCLI.get_and_set_config: loads the job configuration.               *)
(***************************************************************************)
get_and_set_config(next) ==
  /\ \E c \in ConfigClusters : _config' = [loaded |-> TRUE, cluster |-> c]
  /\ Goto(next)
  /\ UNCHANGED << env, session, locals, trace >>

(***************************************************************************)
(* MesosCLIHelper.copy_app_to_hadoop: the staging of the application,      *)
(* which either succeeds or raises.                                        *)
(***************************************************************************)
copy_app_to_hadoop(next) ==
  /\ \E ok \in BOOLEAN :
       IF ok THEN trace' = Append(trace, Ev("copy", NoKey, NoToken, _proxy)) /\ Goto(next)
       ELSE trace' = Append(trace, Log("fatal")) /\ Exit1
  /\ UNCHANGED << env, _config, session, locals >>

(***************************************************************************)
(* MesosCLIHelper.acquire_session_key_or_die: builds a new SessionKey and  *)
(* has it signed.  Keys are numbered in the order they are signed.         *)
(***************************************************************************)
acquire_session_key_or_die == Count("sign") + 1

acquire_session_unsigned(next) ==
  /\ sessionkey' = acquire_session_key_or_die
  /\ Goto(next)
  /\ UNCHANGED << env, _config, session, resp, failed_shards, quota_locals, trace >>

\* MesosCLI.acquire_session, the key being kept in sessionkey.
acquire_session(next) ==
  /\ sessionkey' = acquire_session_key_or_die
  /\ trace' = Append(trace, Ev("sign", sessionkey', NoToken, "-"))
  /\ Goto(next)
  /\ UNCHANGED << env, _config, session, resp, failed_shards, quota_locals >>

(***************************************************************************)
(* A scheduler RPC through the thrift client: the call is recorded (after  *)
(* the reads of resp that compute its arguments), then the scheduler's     *)
(* response, which is kept in resp.                                        *)
(***************************************************************************)
\* ScheduleStatus of a task, and the task lists a status response may
\* carry: task i of the list is the job's shard i - 1.
Statuses == { "PENDING", "STARTING", "RUNNING", "FINISHED", "LOST" }

TaskLists ==
  UNION { { [i \in 1..n |-> [shardId |-> i - 1, status |-> f[i]]] :
            f \in [1..n -> Statuses] } : n \in 0..MaxTasks }

Response(code, updateToken, quota, tasks) ==
  [code |-> code, updateToken |-> updateToken, quota |-> quota, tasks |-> tasks,
   checked |-> FALSE]

Responses(op) ==
  IF op = "startUpdate" THEN
    { Response(OK, t, FALSE, << >>) : t \in Tokens }
    \cup { Response(c, NoToken, FALSE, << >>) : c \in ResponseCodes \ {OK} }
  ELSE IF op = "getQuota" THEN
    { Response(c, NoToken, q, << >>) : c \in ResponseCodes, q \in BOOLEAN }
    \ { Response(OK, NoToken, FALSE, << >>) }
  ELSE IF op = "getTasksStatus" THEN
    { Response(OK, NoToken, FALSE, tasks) : tasks \in TaskLists }
    \cup { Response(c, NoToken, FALSE, << >>) : c \in ResponseCodes \ {OK} }
  ELSE
    { Response(c, NoToken, FALSE, << >>) : c \in ResponseCodes }

rpc(op, key, token, arg, reads, next) ==
  /\ resp' \in Responses(op)
  /\ trace' = trace \o reads \o << Ev(op, key, token, arg),
                                    Ev("response", NoKey, resp'.updateToken, resp'.code) >>
  /\ Goto(next)
  /\ UNCHANGED << env, _config, session, sessionkey, failed_shards, quota_locals >>

(***************************************************************************)
(* check_and_log_response(resp), followed by next.                         *)
(***************************************************************************)
check_and_log_response_only_error(next) ==
  /\ trace' = Append(trace, Ev("check", NoKey, NoToken, resp.code))
  /\ IF resp.code = "ERROR" THEN Exit1 /\ UNCHANGED resp
     ELSE Goto(next) /\ resp' = [resp EXCEPT !.checked = TRUE]
  /\ UNCHANGED << env, _config, session, sessionkey, failed_shards, quota_locals >>

check_and_log_response_no_exit(next) ==
  /\ trace' = Append(trace, Ev("check", NoKey, NoToken, resp.code))
  /\ Goto(next)
  /\ resp' = [resp EXCEPT !.checked = TRUE]
  /\ UNCHANGED << env, _config, session, sessionkey, failed_shards, quota_locals >>

check_and_log_response(next) ==
  /\ trace' = Append(trace, Ev("check", NoKey, NoToken, resp.code))
  /\ IF resp.code # OK THEN Exit1 /\ UNCHANGED resp
     ELSE Goto(next) /\ resp' = [resp EXCEPT !.checked = TRUE]
  /\ UNCHANGED << env, _config, session, sessionkey, failed_shards, quota_locals >>

\* The history entry of a read of a field of resp.
Read(field) == Ev("read", NoKey, NoToken, IF resp.checked THEN "checked" ELSE "unchecked")

(***************************************************************************)
(* main and the requires_arguments decorator.                              *)
(***************************************************************************)
main ==
  /\ pc = "main"
  /\ IF cmd = "" THEN Exit1 ELSE Goto("dispatch")
  /\ UNCHANGED << env, _config, session, locals, trace >>

requires_arguments ==
  /\ pc = "dispatch"
  /\ \E n \in 0..MaxArgs :
       IF n # expected_args(cmd)
         THEN trace' = Append(trace, Log("fatal")) /\ Exit1
         ELSE UNCHANGED trace /\ Goto(cmd)
  /\ UNCHANGED << env, _config, session, locals >>

\* The handler returned: main returns and the process exits with status 0.
exit0 ==
  /\ pc = "return"
  /\ pc' = "done"
  /\ exit_code' = 0
  /\ UNCHANGED << env, _config, session, locals, trace >>

(***************************************************************************)
(* MesosCLI.do_create                                                      *)
(***************************************************************************)
do_create ==
  \/ /\ pc = "create"
     /\ get_and_set_config(IF options.copy_app_from THEN "create_cluster" ELSE "create_sign")
  \/ /\ pc = "create_cluster" /\ cluster("create_proxy")
  \/ /\ pc = "create_proxy"   /\ proxy("create_copy")
  \/ /\ pc = "create_copy"    /\ copy_app_to_hadoop("create_sign")
  \/ /\ pc = "create_sign"    /\ acquire_session("create_client")
  \/ /\ pc = "create_client"  /\ client("create_createJob")
  \/ /\ pc = "create_createJob" /\ rpc("createJob", sessionkey, NoToken, "-", << >>, "create_check")
  \/ /\ pc = "create_check"   /\ check_and_log_response("return")

(***************************************************************************)
(* MesosCLI.do_inspect                                                     *)
(***************************************************************************)
do_inspect ==
  \/ /\ pc = "inspect"
     /\ get_and_set_config(IF options.copy_app_from THEN "inspect_hdfs_path" ELSE "inspect_sign")
  \/ /\ pc = "inspect_hdfs_path"
     /\ \E hdfs_path \in BOOLEAN : Goto(IF hdfs_path THEN "inspect_cluster" ELSE "inspect_sign")
     /\ UNCHANGED << env, _config, session, locals, trace >>
  \/ /\ pc = "inspect_cluster" /\ cluster("inspect_proxy")
  \/ /\ pc = "inspect_proxy"   /\ proxy("inspect_sign")
  \/ /\ pc = "inspect_sign"    /\ acquire_session("return")

(***************************************************************************)
(* MesosCLI.do_start_cron                                                  *)
(***************************************************************************)
do_start_cron ==
  \/ /\ pc = "start_cron"      /\ client("start_cron_sign")
  \/ /\ pc = "start_cron_sign" /\ acquire_session("start_cron_startCronJob")
  \/ /\ pc = "start_cron_startCronJob"
     /\ rpc("startCronJob", sessionkey, NoToken, "-", << >>, "start_cron_check")
  \/ /\ pc = "start_cron_check" /\ check_and_log_response("return")

(***************************************************************************)
(* MesosCLI.do_kill                                                        *)
(***************************************************************************)
do_kill ==
  \/ /\ pc = "kill"      /\ client("kill_sign")
  \/ /\ pc = "kill_sign" /\ acquire_session("kill_killTasks")
  \/ /\ pc = "kill_killTasks"
     /\ rpc("killTasks", sessionkey, NoToken, "-", << >>, "kill_check")
  \/ /\ pc = "kill_check" /\ check_and_log_response("return")

(***************************************************************************)
(* MesosCLI.do_status                                                      *)
(***************************************************************************)
ACTIVE_STATES == { "PENDING", "STARTING", "RUNNING" }

is_active_without_starting(task) == task.status \in { "PENDING", "RUNNING" }

is_active(task) == task.status \in ACTIVE_STATES

\* print_tasks(tasks): one log line per task, in the order of the list.
print_tasks(tasks) ==
  [i \in 1..Len(tasks) |-> Ev("print_task", NoKey, tasks[i].shardId, tasks[i].status)]

\* The statements after the validation: the two filtered blocks under their
\* headers (which carry the blocks' lengths), or the no-tasks message.
status_print ==
  LET not_active(x) == ~is_active(x)
      active_tasks == SelectSeq(resp.tasks, is_active)
      inactive_tasks == SelectSeq(resp.tasks, not_active)
  IN
  /\ trace' =
       IF resp.tasks # << >> THEN
         trace \o << Read("tasks"),
                     Ev("log", NoKey, Len(active_tasks), "Active Tasks") >>
               \o print_tasks(active_tasks)
               \o << Ev("log", NoKey, Len(inactive_tasks), "Inactive Tasks") >>
               \o print_tasks(inactive_tasks)
       ELSE trace \o << Read("tasks"), Log("No tasks found.") >>
  /\ Goto("return")
  /\ UNCHANGED << env, _config, session, locals >>

do_status ==
  \/ /\ pc = "status" /\ client("status_getTasksStatus")
  \/ /\ pc = "status_getTasksStatus"
     /\ rpc("getTasksStatus", NoKey, NoToken, "-", << >>, "status_check")
  \/ /\ pc = "status_check" /\ check_and_log_response("status_print")
  \/ /\ pc = "status_print" /\ status_print

(***************************************************************************)
(* MesosCLI.do_update                                                      *)
(***************************************************************************)
update_result_swapped(failed) == IF failed # {} THEN "SUCCESS" ELSE "FAILED"

\* UpdateResult.FAILED if failed_shards else UpdateResult.SUCCESS
update_result(failed) == IF failed # {} THEN "FAILED" ELSE "SUCCESS"

update_delegate_fatal_on_failure ==
  /\ failed_shards' \in SUBSET Shards
  /\ trace' = trace \o << Read("updateToken"),
                          Ev("delegate", sessionkey, resp.updateToken, "-") >>
  /\ IF failed_shards' # {} THEN Exit1 ELSE Goto("update_log")
  /\ UNCHANGED << env, _config, session, sessionkey, resp, quota_locals >>

\* Updater(role, name, client, time, resp.updateToken, sessionkey).update(job):
\* the shard-update capability returns the set of shards that failed.
update_delegate ==
  /\ failed_shards' \in SUBSET Shards
  /\ trace' = trace \o << Read("updateToken"),
                          Ev("delegate", sessionkey, resp.updateToken, "-") >>
  /\ Goto("update_log")
  /\ UNCHANGED << env, _config, session, sessionkey, resp, quota_locals >>

update_finishUpdate_null_token ==
  rpc("finishUpdate", sessionkey, NoToken, update_result(failed_shards),
      << >>, "update_check2")

update_finishUpdate ==
  rpc("finishUpdate", sessionkey, resp.updateToken, update_result(failed_shards),
      << Read("updateToken") >>, "update_check2")

do_update ==
  \/ /\ pc = "update"
     /\ get_and_set_config(IF options.copy_app_from THEN "update_cluster" ELSE "update_sign")
  \/ /\ pc = "update_cluster" /\ cluster("update_proxy")
  \/ /\ pc = "update_proxy"   /\ proxy("update_copy")
  \/ /\ pc = "update_copy"    /\ copy_app_to_hadoop("update_sign")
  \/ /\ pc = "update_sign"    /\ acquire_session("update_client1")
  \/ /\ pc = "update_client1" /\ client("update_startUpdate")
  \/ /\ pc = "update_startUpdate"
     /\ rpc("startUpdate", sessionkey, NoToken, "-", << >>, "update_check1")
  \/ /\ pc = "update_check1"  /\ check_and_log_response("update_client2")
  \/ /\ pc = "update_client2" /\ client("update_delegate")
  \/ /\ pc = "update_delegate" /\ update_delegate
  \/ /\ pc = "update_log"
     /\ trace' = Append(trace, Log(IF failed_shards # {} THEN "Update reverted"
                                   ELSE "Update Successful"))
     /\ Goto("update_client3")
     /\ UNCHANGED << env, _config, session, locals >>
  \/ /\ pc = "update_client3" /\ client("update_finishUpdate")
  \/ /\ pc = "update_finishUpdate" /\ update_finishUpdate
  \/ /\ pc = "update_check2"  /\ check_and_log_response("return")

do_cancel_update_with_start ==
  \/ /\ pc = "cancel_update"      /\ client("cancel_update_sign")
  \/ /\ pc = "cancel_update_sign" /\ acquire_session("cancel_update_finishUpdate")
  \/ /\ pc = "cancel_update_finishUpdate"
     /\ rpc("startUpdate", sessionkey, NoToken, "-", << >>, "cancel_update_finish2")
  \/ /\ pc = "cancel_update_finish2"
     /\ rpc("finishUpdate", sessionkey, resp.updateToken, "TERMINATE",
            << Read("updateToken") >>, "cancel_update_check")
  \/ /\ pc = "cancel_update_check" /\ check_and_log_response("return")

(***************************************************************************)
(* MesosCLI.do_cancel_update                                               *)
(***************************************************************************)
do_cancel_update ==
  \/ /\ pc = "cancel_update"      /\ client("cancel_update_sign")
  \/ /\ pc = "cancel_update_sign" /\ acquire_session("cancel_update_finishUpdate")
  \/ /\ pc = "cancel_update_finishUpdate"
     /\ rpc("finishUpdate", sessionkey, NoToken, "TERMINATE", << >>, "cancel_update_check")
  \/ /\ pc = "cancel_update_check" /\ check_and_log_response("return")

(***************************************************************************)
(* MesosCLI.do_get_quota                                                   *)
(***************************************************************************)
do_get_quota ==
  \/ /\ pc = "get_quota" /\ client("get_quota_getQuota")
  \/ /\ pc = "get_quota_getQuota"
     /\ rpc("getQuota", NoKey, NoToken, "-", << >>, "get_quota_print")
  \/ /\ pc = "get_quota_print"
        \* quota = resp.quota; quota.numCpus raises when the record is None
     /\ IF resp.quota
          THEN trace' = trace \o << Read("quota"), Log("Quota for role") >> /\ Goto("return")
          ELSE trace' = trace \o << Read("quota"), Log("traceback") >> /\ Exit1
     /\ UNCHANGED << env, _config, session, locals >>

(***************************************************************************)
(* MesosCLI.do_set_quota                                                   *)
(***************************************************************************)
Str_4096 == <<"4","0","9","6">>
Str_1_5 == <<"1",".","5">>

\* The words a user may give for cpu, ramMb and diskMb.
NumberArgs == { Str_4096, Str_1_5, Str_abc }

\* The try block: the three assignments in order, up to the first ValueError,
\* which is logged and swallowed.
set_quota_parse ==
  \E cpu_str \in NumberArgs, ram_mb_str \in NumberArgs, disk_mb_str \in NumberArgs :
    LET cpu_ok  == ParseFloatOk(cpu_str)
        ram_ok  == cpu_ok /\ ParseInt(ram_mb_str).ok
        disk_ok == ram_ok /\ ParseInt(disk_mb_str).ok
    IN
      /\ line' = << cpu_str, ram_mb_str, disk_mb_str >>
      /\ cpu' = IF cpu_ok THEN Bound(cpu_str) ELSE Unbound
      /\ ram_mb' = IF ram_ok THEN Bound(ParseInt(ram_mb_str).val) ELSE Unbound
      /\ disk_mb' = IF disk_ok THEN Bound(ParseInt(disk_mb_str).val) ELSE Unbound
      /\ trace' = IF disk_ok THEN trace ELSE Append(trace, Log("Invalid value"))
      /\ Goto("set_quota_client")
      /\ UNCHANGED << env, _config, session, sessionkey, resp, failed_shards >>

set_quota_Quota_defaulted ==
  /\ UNCHANGED trace
  /\ Goto("set_quota_sign")
  /\ UNCHANGED << env, _config, session, locals >>

\* Quota(cpu, ram_mb, disk_mb): reading a local that was never assigned
\* raises UnboundLocalError, which nothing catches.
set_quota_Quota ==
  /\ IF cpu.bound /\ ram_mb.bound /\ disk_mb.bound
       THEN UNCHANGED trace /\ Goto("set_quota_sign")
       ELSE trace' = Append(trace, Log("traceback")) /\ Exit1
  /\ UNCHANGED << env, _config, session, locals >>

do_set_quota ==
  \/ /\ pc = "set_quota"        /\ set_quota_parse
  \/ /\ pc = "set_quota_client" /\ client("set_quota_Quota")
  \/ /\ pc = "set_quota_Quota"  /\ set_quota_Quota
  \/ /\ pc = "set_quota_sign"   /\ acquire_session("set_quota_setQuota")
  \/ /\ pc = "set_quota_setQuota"
     /\ rpc("setQuota", sessionkey, NoToken, "-", << >>, "set_quota_check")
  \/ /\ pc = "set_quota_check"  /\ check_and_log_response("return")

Next ==
  \/ main
  \/ requires_arguments
  \/ exit0
  \/ do_create
  \/ do_inspect
  \/ do_start_cron
  \/ do_kill
  \/ do_status
  \/ do_update
  \/ do_cancel_update
  \/ do_get_quota
  \/ do_set_quota

Spec == Init /\ [][Next]_vars

(***************************************************************************)
(* Properties.                                                             *)
(***************************************************************************)
Last(seq) == seq[Len(seq)]

\* C1: in an update run, finishUpdate is issued at most once, its outcome is
\* SUCCESS when the updater's failed-shard set is empty and FAILED when it is
\* not (so never TERMINATE), and a run that reached the delegate step does not
\* end without having issued it.
C1_FinishOnceWithOutcome ==
  cmd = "update" =>
    /\ Count("finishUpdate") <= 1
    /\ \A f \in Indices("finishUpdate") :
         /\ failed_shards = {} => trace[f].arg = "SUCCESS"
         /\ failed_shards # {} => trace[f].arg = "FAILED"
         /\ trace[f].arg # "TERMINATE"
    /\ (pc = "done" /\ Count("delegate") >= 1) => Count("finishUpdate") = 1

C1_Witness ==
  /\ cmd = "update"
  /\ pc = "done"
  /\ failed_shards # {}
  /\ Count("delegate") = 1
  /\ \E f \in Indices("finishUpdate") : trace[f].arg = "FAILED"

\* C2: in an update run every delegate step comes after a startUpdate whose
\* response was validated as OK, every finishUpdate comes after a delegate
\* step, and no startUpdate follows a delegate nor a delegate a finishUpdate.
C2_StartDelegateFinishOrder ==
  cmd = "update" =>
    /\ \A d \in Indices("delegate") :
         \E s \in Indices("startUpdate"), k \in Indices("check") :
           s < k /\ k < d /\ trace[s + 1].arg = OK /\ trace[k].arg = OK
    /\ \A f \in Indices("finishUpdate") : \E d \in Indices("delegate") : d < f
    /\ \A d \in Indices("delegate") :
         /\ \A s \in Indices("startUpdate") : s < d
         /\ \A f \in Indices("finishUpdate") : d < f

C2_Witness ==
  /\ cmd = "update"
  /\ Count("startUpdate") = 1
  /\ Count("delegate") = 1
  /\ Count("finishUpdate") = 1

\* C3: the token of an update's finishUpdate is the token of the response to
\* that run's startUpdate, and no token is passed to two finishUpdate calls.
C3_TokenFromStartUsedOnce ==
  /\ cmd = "update" =>
       \A f \in Indices("finishUpdate") :
         \E s \in Indices("startUpdate") :
           /\ s < f
           /\ trace[s + 1].op = "response"
           /\ trace[s + 1].token \in Tokens
           /\ trace[f].token = trace[s + 1].token
  /\ \A f1 \in Indices("finishUpdate"), f2 \in Indices("finishUpdate") :
       (trace[f1].token # NoToken /\ trace[f1].token = trace[f2].token) => f1 = f2

C3_Witness ==
  /\ cmd = "update"
  /\ \E f \in Indices("finishUpdate") : trace[f].token = NumTokens

\* C4: a step that validates a response ends the process with status 1 when
\* the response's code is not OK, and otherwise goes on to the next statement
\* with the exit status untouched; and no step is taken once the process
\* has exited.
C4_ValidatorExitsOnNonOK ==
  [][ /\ pc # "done"
      /\ (Len(trace') > Len(trace) /\ Last(trace').op = "check") =>
            IF resp.code # OK
              THEN exit_code' = 1 /\ pc' = "done"
              ELSE exit_code' = exit_code /\ exit_code' = Running /\ pc' # "done"
    ]_vars

C4_Witness ==
  /\ pc = "done"
  /\ exit_code = 1
  /\ trace # << >>
  /\ Last(trace).op = "check"
  /\ Last(trace).arg # OK
  /\ \E k \in Indices("check") : trace[k].arg = OK

RpcOps ==
  { "createJob", "startCronJob", "killTasks", "getTasksStatus", "startUpdate",
    "finishUpdate", "getQuota", "setQuota" }

\* The RPCs that take a session key.
MutatingOps == RpcOps \ { "getTasksStatus", "getQuota" }

RpcIndices == {i \in 1..Len(trace) : trace[i].op \in RpcOps}

\* C5: every read of a field of a response comes after that response was
\* passed to check_and_log_response, and a run that ends with status 0 has
\* validated the response of each of its RPCs.
C5_ResponseValidatedBeforeUse ==
  /\ \A r \in Indices("read") : trace[r].arg = "checked"
  /\ (pc = "done" /\ exit_code = 0) =>
       \A i \in RpcIndices : \E k \in Indices("check") : k > i

\* C6: _construct_scheduler runs at most once in a process, whatever the
\* accessors called and whatever the tunnel host it resolved.
C6_ResolveAtMostOnce == Count("resolve") <= 1

\* C7 (as stated): no session key is passed to two different RPCs.
C7_NoCredentialReuse ==
  \A i \in RpcIndices, j \in RpcIndices :
    (trace[i].key # NoKey /\ trace[i].key = trace[j].key) => i = j

\* C7 (amended): every RPC that takes a session key is passed a key that a
\* sign call of the same run produced before it, no two sign calls produce the
\* same key, and a key is passed to two RPCs only in update, where the
\* key of startUpdate is the key of finishUpdate.
C7_CredentialMintedPerCommand ==
  /\ \A i \in RpcIndices :
       trace[i].op \in MutatingOps =>
         /\ trace[i].key # NoKey
         /\ \E g \in Indices("sign") : g < i /\ trace[g].key = trace[i].key
  /\ \A g1 \in Indices("sign"), g2 \in Indices("sign") :
       trace[g1].key = trace[g2].key => g1 = g2
  /\ \A i \in RpcIndices, j \in RpcIndices :
       (i < j /\ trace[i].key # NoKey /\ trace[i].key = trace[j].key) =>
          /\ cmd = "update"
          /\ trace[i].op = "startUpdate"
          /\ trace[j].op = "finishUpdate"
  /\ \A i \in Indices("startUpdate"), j \in Indices("finishUpdate") :
       (cmd = "update" /\ i < j) => trace[i].key = trace[j].key

C7_Witness ==
  /\ cmd = "update"
  /\ \E i \in Indices("startUpdate"), j \in Indices("finishUpdate") :
       trace[i].key = trace[j].key /\ trace[i].key # NoKey

\* C8 (as stated): a run of create, update, kill, cancel_update, status or
\* set_quota that has issued its scheduler call has signed exactly once.
C8_SignOncePerOperation ==
  (/\ cmd \in {"create", "update", "kill", "cancel_update", "status", "set_quota"}
   /\ RpcIndices # {}) => Count("sign") = 1

\* C8 (amended): a run of create, update, kill, cancel_update or set_quota
\* that has issued its scheduler call has signed exactly once, and a run of
\* status never signs.
C8_SignOnceExceptStatus ==
  /\ (/\ cmd \in {"create", "update", "kill", "cancel_update", "set_quota"}
      /\ RpcIndices # {}) => Count("sign") = 1
  /\ cmd = "status" => Count("sign") = 0

C8_Witness ==
  /\ cmd = "update"
  /\ pc = "done"
  /\ Count("finishUpdate") = 1
  /\ Count("sign") = 1

\* C9: in set_quota the setQuota RPC is issued only if cpu parses as a float
\* and ramMb and diskMb parse as integers, and when one of them does not,
\* the parse error 'Invalid value' has been logged.
AllThreeParse ==
  /\ line[1] \in { Str_4096, Str_1_5 }
  /\ line[2] = Str_4096
  /\ line[3] = Str_4096

C9_NoSetQuotaOnParseFailure ==
  (cmd = "set_quota" /\ line # << >>) =>
    /\ Count("setQuota") >= 1 => AllThreeParse
    /\ ~AllThreeParse =>
         /\ \E i \in Indices("log") : trace[i].arg = "Invalid value"
         /\ Count("setQuota") = 0
         /\ pc \notin { "set_quota_sign", "set_quota_setQuota", "set_quota_check", "return" }
    /\ AllThreeParse => \A i \in Indices("log") : trace[i].arg # "Invalid value"

C9_Witness ==
  /\ cmd = "set_quota"
  /\ pc = "done"
  /\ line = << Str_abc, Str_4096, Str_4096 >>
  /\ Count("resolve") = 1
  /\ _client # NoScheduler
  /\ Count("setQuota") = 0
  /\ \E i \in Indices("log") : trace[i].arg = "Invalid value"

\* C10: once the cluster localhost:<port> has been resolved, the tunnel host
\* is none, the scheduler client is a direct client on exactly <port>, and
\* neither the tunnel lookup nor a discovery-mode client was used, in either
\* locality.
LocalPorts == { << Str_1234, 1234 >>, << Str_80, 80 >> }

C10_LocalhostDirectNoTunnel ==
  \A lp \in LocalPorts :
    _cluster = LocalhostColon \o lp[1] =>
      /\ _proxy = NoHost
      /\ _scheduler.kind = "local"
      /\ _scheduler.port = lp[2]
      /\ Count("get_tunnel_host") = 0
      /\ Count("discovery") = 0

C10_Witness ==
  /\ _cluster = LocalhostColon \o Str_1234
  /\ locality = "corp"
  /\ _scheduler.kind = "local"
  /\ _scheduler.port = 1234
  /\ _client # NoScheduler

\* The cluster string a run supplies: the command line's if it gives one,
\* otherwise the loaded configuration's (None when neither does).
CmdLineGiven == options.cluster \notin { None, << >> }
ConfigGiven == _config.loaded /\ _config.cluster \notin { None, << >> }
Supplied == IF CmdLineGiven THEN options.cluster ELSE _config.cluster

Colon == << ":" >>

\* C11: when the supplied cluster names a non-local cluster that the registry
\* does not hold, with or without a port, the resolution ends the process
\* with a fatal message and status 1, without a tunnel lookup, a discovery
\* client or a scheduler object, and the cached client stays unset.
UnknownClusterStrings == { Xyz, Xyz \o Colon \o Str_80 }

C11_UnknownClusterIsFatal ==
  (Supplied \in UnknownClusterStrings /\ Count("resolve") >= 1) =>
    /\ pc = "done"
    /\ exit_code = 1
    /\ Count("resolve") = 1
    /\ Last(trace) = Log("fatal")
    /\ Count("get_tunnel_host") = 0
    /\ Count("discovery") = 0
    /\ _scheduler = NoScheduler
    /\ _client = NoScheduler

C11_Witness ==
  /\ options.cluster = Xyz \o Colon \o Str_80
  /\ locality = "corp"
  /\ Count("resolve") = 1
  /\ pc = "done"
  /\ exit_code = 1
  /\ _client = NoScheduler

\* C12: a resolution ends the process with status 1 and no client when no
\* cluster is supplied or when the text after the cluster name's ':' is not
\* an integer, and a client is cached only for a supplied cluster whose port
\* suffix is absent or an integer.
BadPortSuffixStrings ==
  { Smf1 \o Colon \o Str_abc,
    Smf1 \o Colon \o Str_80 \o Colon \o Str_80,
    LocalhostColon \o Str_abc,
    LocalhostColon,
    LocalhostColon \o Str_80 \o Colon \o Str_abc,
    LocalhostColon \o Str_abc \o Colon \o Str_80 }

C12_NoClusterOrBadPortIsFatal ==
  Count("resolve") >= 1 =>
    /\ (Supplied \in { None, << >> } \/ Supplied \in BadPortSuffixStrings) =>
         /\ pc = "done"
         /\ exit_code = 1
         /\ _client = NoScheduler
    /\ _client # NoScheduler =>
         /\ Supplied \notin { None, << >> }
         /\ Supplied \notin BadPortSuffixStrings

\* C13: when --cluster and the configuration's cluster are both non-empty
\* and differ, every resolution logs the mismatch warning and selects the
\* command line's cluster, which, when valid, is cached with a scheduler
\* (the mismatch is not fatal); when they are equal or only one is given,
\* no warning is logged and the one given is selected.
ValidClusterStrings ==
  { Smf1, AngrybirdLocal, Smf1 \o Colon \o Str_80,
    LocalhostColon \o Str_1234, LocalhostColon \o Str_80 }

MismatchWarnings == {i \in Indices("log") : trace[i].arg = "cluster mismatch"}

C13_CommandLineClusterWins ==
  Count("resolve") >= 1 =>
    /\ (CmdLineGiven /\ ConfigGiven /\ options.cluster # _config.cluster) =>
         /\ Cardinality(MismatchWarnings) = Count("resolve")
         /\ \A r \in Indices("resolve") :
              trace[r].arg = options.cluster /\ trace[r + 1] = Log("cluster mismatch")
         /\ options.cluster \in ValidClusterStrings =>
              _cluster = options.cluster /\ _scheduler # NoScheduler
    /\ ~(CmdLineGiven /\ ConfigGiven /\ options.cluster # _config.cluster) =>
         MismatchWarnings = {}
    /\ (CmdLineGiven /\ ~ConfigGiven) =>
         \A r \in Indices("resolve") : trace[r].arg = options.cluster
    /\ (~CmdLineGiven /\ ConfigGiven) =>
         /\ \A r \in Indices("resolve") : trace[r].arg = _config.cluster
         /\ _config.cluster \in ValidClusterStrings => _cluster = _config.cluster

C13_Witness ==
  /\ options.cluster = Smf1
  /\ _config.cluster = LocalhostColon \o Str_80
  /\ MismatchWarnings # {}
  /\ _cluster = Smf1
  /\ _client # NoScheduler
  /\ pc = "done"
  /\ exit_code = 0

\* C14: once a non-localhost cluster has been resolved, the scheduler
\* client is a discovery-mode client for the cluster's name and port; the
\* tunnel host is none, with no lookup made, when the locality is production
\* or the cluster is angrybird-local, and otherwise is what the one tunnel
\* lookup of that resolution answered; and force_notunnel is true exactly
\* when the tunnel host is none.
DiscoveryClusters ==
  { << Smf1, Smf1, 2181 >>,
    << AngrybirdLocal, AngrybirdLocal, 2181 >>,
    << Smf1 \o Colon \o Str_80, Smf1, 80 >> }

LookupsOfLastResolve ==
  {i \in Indices("get_tunnel_host") : \A r \in Indices("resolve") : r < i}

C14_TunnelHostAndForceNoTunnel ==
  \A dc \in DiscoveryClusters :
    _cluster = dc[1] =>
      /\ _scheduler.kind = "zookeeper"
      /\ _scheduler.cluster = dc[2]
      /\ _scheduler.port = dc[3]
      /\ _scheduler.force_notunnel = (_proxy = NoHost)
      /\ IF locality = "prod" \/ dc[2] = AngrybirdLocal
           THEN _proxy = NoHost /\ Count("get_tunnel_host") = 0
           ELSE /\ Cardinality(LookupsOfLastResolve) = 1
                /\ \A i \in LookupsOfLastResolve : trace[i].arg = _proxy

C14_Witness ==
  /\ _cluster = Smf1 \o Colon \o Str_80
  /\ locality = "corp"
  /\ _proxy = "nest1.corp"
  /\ _scheduler.kind = "zookeeper"
  /\ _scheduler.force_notunnel = FALSE
  /\ _client # NoScheduler

\* C15: a cancel_update run issues no RPC but finishUpdate with outcome
\* TERMINATE and a null token, at most once and exactly once in a run that
\* ends with status 0; it never issues startUpdate, never runs the updater
\* and reads no field of an earlier response.
C15_CancelIsOneTerminate ==
  cmd = "cancel_update" =>
    /\ \A i \in RpcIndices :
         /\ trace[i].op = "finishUpdate"
         /\ trace[i].arg = "TERMINATE"
         /\ trace[i].token = NoToken
    /\ Cardinality(RpcIndices) <= 1
    /\ Count("delegate") = 0
    /\ Count("read") = 0
    /\ (pc = "done" /\ exit_code = 0) => Cardinality(RpcIndices) = 1

C15_Witness ==
  /\ cmd = "cancel_update"
  /\ pc = "done"
  /\ exit_code = 0
  /\ \E i \in Indices("finishUpdate") : trace[i].arg = "TERMINATE"

\* C16: an update whose updater returned a non-empty failed-shard set goes
\* on to issue finishUpdate with outcome FAILED, and ends with status 0 when
\* the response to that call is OK and with status 1 when it is not.
C16_PartialFailureNotFatal ==
  (cmd = "update" /\ Count("delegate") >= 1 /\ failed_shards # {}) =>
    /\ pc # "done" => exit_code = Running
    /\ pc = "done" =>
         \E f \in Indices("finishUpdate") :
           /\ trace[f].arg = "FAILED"
           /\ trace[f + 1].op = "response"
           /\ trace[f + 1].arg = OK => exit_code = 0
           /\ trace[f + 1].arg # OK => exit_code = 1

C16_Witness ==
  /\ cmd = "update"
  /\ failed_shards # {}
  /\ pc = "done"
  /\ exit_code = 0
  /\ \E f \in Indices("finishUpdate") : trace[f].arg = "FAILED" /\ trace[f + 1].arg = OK

\* C17: once a status run has printed a validated task list, an empty list
\* gave only the no-tasks message; a non-empty one gave the ACTIVE header,
\* then the PENDING, STARTING and RUNNING tasks, then the INACTIVE header,
\* then all other tasks, every task of the list exactly once and each block
\* in the order of the list.
Printed == Indices("print_task")
Headers(h) == {i \in Indices("log") : trace[i].arg = h}

C17_ActiveThenInactive ==
  (cmd = "status" /\ Count("read") >= 1) =>
    IF resp.tasks = << >> THEN
      /\ Cardinality(Headers("No tasks found.")) = 1
      /\ Headers("Active Tasks") = {} /\ Headers("Inactive Tasks") = {}
      /\ Printed = {}
    ELSE
      /\ Headers("No tasks found.") = {}
      /\ Cardinality(Headers("Active Tasks")) = 1
      /\ Cardinality(Headers("Inactive Tasks")) = 1
      /\ Cardinality(Printed) = Len(resp.tasks)
      /\ \A a \in Headers("Active Tasks"), b \in Headers("Inactive Tasks") :
           /\ a < b
           /\ \A i \in 1..Len(resp.tasks) :
                \E p \in Printed :
                  /\ trace[p].token = resp.tasks[i].shardId
                  /\ trace[p].arg = resp.tasks[i].status
                  /\ IF resp.tasks[i].status \in { "PENDING", "STARTING", "RUNNING" }
                       THEN a < p /\ p < b
                       ELSE b < p
           /\ \A p \in Printed, q \in Printed :
                (p < q /\ (p < b <=> q < b)) => trace[p].token < trace[q].token

C17_Witness ==
  /\ cmd = "status"
  /\ pc = "done"
  /\ exit_code = 0
  /\ Len(resp.tasks) = 3
  /\ resp.tasks[1].status = "FINISHED"
  /\ resp.tasks[2].status = "STARTING"
  /\ resp.tasks[3].status = "LOST"
  /\ Cardinality(Printed) = 3

\* C18: no RPC follows a non-OK response, no RPC is issued twice, and an
\* update whose startUpdate response is not OK never runs the updater nor
\* issues finishUpdate, and ends with status 1.
C18_NothingAfterNonOK ==
  /\ \A i \in Indices("response") :
       trace[i].arg # OK => \A j \in RpcIndices : j < i
  /\ \A op \in RpcOps : Count(op) <= 1
  /\ \A u \in Indices("startUpdate") :
       (cmd = "update" /\ trace[u + 1].arg # OK) =>
         /\ Count("delegate") = 0
         /\ Count("finishUpdate") = 0
         /\ pc \in { "update_check1", "done" }
         /\ pc = "done" => exit_code = 1

C18_Witness ==
  /\ cmd = "update"
  /\ pc = "done"
  /\ exit_code = 1
  /\ \E u \in Indices("startUpdate") : trace[u + 1].arg = "INVALID_REQUEST"
  /\ Count("finishUpdate") = 0

\* C19: in create and update the configuration is loaded before any
\* resolution, every resolution selects the same cluster, the command line's
\* if it gives one and otherwise the configuration's, and that is the
\* cluster the cache holds.
C19_OneClusterPerInvocation ==
  (cmd \in { "create", "update" } /\ Count("resolve") >= 1) =>
    /\ _config.loaded
    /\ \A r \in Indices("resolve") :
         trace[r].arg = IF CmdLineGiven THEN options.cluster ELSE _config.cluster
    /\ _cluster # None =>
         _cluster = IF CmdLineGiven THEN options.cluster ELSE _config.cluster

C19_Witness ==
  /\ cmd = "create"
  /\ Count("resolve") = 2
  /\ ~CmdLineGiven
  /\ _cluster = Smf1
  /\ Count("createJob") = 1

\* C20 (as stated): in every state the cached cluster, tunnel host and
\* client are all unset or were all assigned by the same resolution.
C20_CacheAllOrNothing ==
  \/ /\ _cluster = None /\ _proxy = NoHost /\ _client = NoScheduler
     /\ origin = NoOrigin
  \/ /\ origin.cluster # 0
     /\ origin.proxy = origin.cluster
     /\ origin.client = origin.cluster

\* C20 (amended): while the process has not exited, the cached cluster,
\* tunnel host and client are all unset or were all assigned by the same
\* resolution, the latest one, and the client is set; and after a resolution
\* that failed the process has exited with status 1, so no later call uses
\* what it left in the cache.
C20_CacheConsistentWhileRunning ==
  /\ pc # "done" =>
       \/ /\ _cluster = None /\ _proxy = NoHost /\ _client = NoScheduler
          /\ origin = NoOrigin
          /\ Count("resolve") = 0
       \/ /\ origin.cluster = Count("resolve")
          /\ origin.cluster # 0
          /\ origin.proxy = origin.cluster
          /\ origin.client = origin.cluster
          /\ _client # NoScheduler
          /\ _cluster # None
  /\ (Count("resolve") >= 1 /\ (_client = NoScheduler \/ origin.client # Count("resolve"))) =>
       pc = "done" /\ exit_code = 1

C20_Witness ==
  /\ pc # "done"
  /\ Count("resolve") = 2
  /\ origin.cluster = 2
  /\ origin.proxy = 2
  /\ origin.client = 2
  /\ _client # NoScheduler

====
